---- MODULE Spec2Model ----
(***************************************************************************)
(* Model of the zeitschaltuhr temporal-iteration engine (src/src/period.rs)*)
(*                                                                         *)
(* Time is counted in ticks; TicksPerSec ticks make one second, so that    *)
(* sub-second instants and durations exist.  An instant is the number of   *)
(* ticks since the Unix epoch on the absolute (UTC) time line; a duration  *)
(* is a signed number of ticks.  Widths (u32 cast, i64 nanosecond count)   *)
(* and the calendar (length of an hour, daylight-saving transitions) are   *)
(* scaled down so that their boundary cases lie inside the explored range. *)
(***************************************************************************)
EXTENDS Integers, Sequences, FiniteSets, TLC

\* ---------------------------------------------------------------- bounds
TicksPerSec == 2        \* resolution: ticks per second
HourSecs == 1           \* scaled: seconds per hour
U32Bits == 2            \* scaled: width of the `as u32` casts
I64NanoTicks == 9       \* scaled: largest |duration| whose nanosecond count fits i64
MaxNow == 8             \* last clock reading explored (ticks)
PreEpoch == 2           \* ticks before the epoch at which the earliest start lies
MaxDur == 10            \* largest |duration| passed to construction (ticks)
MaxCalls == 4           \* calls of next explored per sequence

Hour == HourSecs * TicksPerSec
MinStart == -PreEpoch
MaxStart == 2 * Hour
Starts == MinStart..MaxStart
Durations == (-MaxDur)..MaxDur

RECURSIVE Pow2(_)
Pow2(n) == IF n = 0 THEN 1 ELSE 2 * Pow2(n - 1)

U32Mod == Pow2(U32Bits)

Max(a, b) == IF a >= b THEN a ELSE b

\* ------------------------------------------------------- chrono::Duration
\* Duration::is_zero
IsZero(d) == d = 0

\* Duration::num_seconds: whole seconds, truncated toward zero
NumSeconds(d) == IF d >= 0 THEN d \div TicksPerSec ELSE -((-d) \div TicksPerSec)

\* Duration::num_nanoseconds().unwrap_or(0): None (hence 0) when the count
\* does not fit i64; only the sign of the result is used
NumNanosecondsOrZero(d) == IF d > I64NanoTicks \/ d < -I64NanoTicks THEN 0 ELSE d

\* Duration::seconds(n)
Seconds(n) == n * TicksPerSec

\* ------------------------------------------------------- chrono::DateTime
\* DateTime::timestamp: whole seconds since the epoch, rounded down
Timestamp(t) == t \div TicksPerSec

\* Europe/Berlin-like zone: standard offset 1 h, summer offset 2 h.  The
\* forward transition happens one hour after local 01:00 standard time, the
\* backward transition two hours later.
SpringForwardAt == 1 * Hour
FallBackAt == 3 * Hour
UtcOffset(t) == IF t >= SpringForwardAt /\ t < FallBackAt THEN 2 * Hour ELSE 1 * Hour

\* local wall-clock label of an instant
LocalLabel(t) == t + UtcOffset(t)

\* `x as u32` for a non-negative i64
AsU32(x) == x % U32Mod

\* u32::div_ceil (the divisor is non-zero)
DivCeil(a, b) == (a + b - 1) \div b

\* ------------------------------------------------------------------ state
\* now        the clock reading (TimeProvider::now), in ticks
\* args       the arguments of the construction call
\* result     the outcome of the construction call
\* period     the Period that construction returned
\* fixedIt    the sequence obtained by upcoming_fixed
\* relIt      the sequence obtained by upcoming_relative
\* relMade    the clock reading when relIt was obtained
\* relFirstAt the clock reading at the first call of next on relIt
\* panicked   a call has panicked
\* callerPc   where the thread that registers the entries stands
\* sources    the temporal source handed to add_task for each entry
\* paths      the execution path of each entry (ScheduledTask and its loop)
VARIABLES now, args, result, period, fixedIt, relIt, relMade, relFirstAt, panicked, runs,
          callerPc, sources, paths

vars == <<now, args, result, period, fixedIt, relIt, relMade, relFirstAt, panicked, runs,
          callerPc, sources, paths>>

periodVars == <<args, result, period, fixedIt, relIt, relMade, relFirstAt, panicked>>
schedVars == <<callerPc, sources, paths>>

NoPeriod == [start |-> 0, duration |-> 0]
NoIter == [live |-> FALSE, current |-> 0, out |-> <<>>]

\* two fixed-mode sequences of the same Period, each with the clock readings of
\* its first and its latest call of next
Runs == {1, 2}
NoRun == [it |-> NoIter, firstAt |-> 0, lastAt |-> 0]

\* ------------------------------------------------------------ construction
\* C7 mutant: the zero check is missing
StartingAt_NoZeroCheck(start, duration) ==
    IF NumSeconds(duration) < 0 \/ NumNanosecondsOrZero(duration) < 0
    THEN [result |-> "NegativeDurationError", period |-> NoPeriod]
    ELSE [result |-> "Ok", period |-> [start |-> start, duration |-> duration]]

\* C8 mutant: only whole seconds are tested for the sign
StartingAt_SecondsOnly(start, duration) ==
    IF IsZero(duration)
    THEN [result |-> "ZeroDurationError", period |-> NoPeriod]
    ELSE IF NumSeconds(duration) < 0
    THEN [result |-> "NegativeDurationError", period |-> NoPeriod]
    ELSE [result |-> "Ok", period |-> [start |-> start, duration |-> duration]]

\* C9 mutant: the duration is stored in whole seconds
StartingAt_Truncating(start, duration) ==
    IF IsZero(duration)
    THEN [result |-> "ZeroDurationError", period |-> NoPeriod]
    ELSE IF NumSeconds(duration) < 0 \/ NumNanosecondsOrZero(duration) < 0
    THEN [result |-> "NegativeDurationError", period |-> NoPeriod]
    ELSE [result |-> "Ok",
          period |-> [start |-> start, duration |-> Seconds(NumSeconds(duration))]]

\* Period::starting_at_with_time_provider
StartingAt(start, duration) ==
    IF IsZero(duration)
    THEN [result |-> "ZeroDurationError", period |-> NoPeriod]
    ELSE IF NumSeconds(duration) < 0 \/ NumNanosecondsOrZero(duration) < 0
    THEN [result |-> "NegativeDurationError", period |-> NoPeriod]
    ELSE [result |-> "Ok", period |-> [start |-> start, duration |-> duration]]

\* -------------------------------------------------------------- strategies
\* C1 mutant: only the whole seconds of the duration are added
FixedNextTimestamp_WholeSeconds(timestamp, duration) ==
    timestamp + Seconds(NumSeconds(duration))

\* C2 mutant: the duration is added to the wall-clock label, which is then
\* read in the zone's standard offset
FixedNextTimestamp_WallClock(timestamp, duration) ==
    (LocalLabel(timestamp) + duration) - 1 * Hour

\* C26 mutant: the step starts from the clock when the cursor lies in the past
FixedNextTimestamp_FromPresent(timestamp, duration) ==
    Max(timestamp, now) + duration

\* FixedIntervalStrategy::next_timestamp
FixedNextTimestamp(timestamp, duration) == timestamp + duration

\* the divisor of div_ceil in NextAvailableIntervalStrategy::next_timestamp
StepDivisor(duration) == AsU32(NumSeconds(duration))

\* C22 mutant: the gap is divided as it is, without max(0) and the cast
FullDurationsTillPresent_NoMax(clock, current, duration) ==
    DivCeil(Timestamp(clock) - Timestamp(current), StepDivisor(duration))

\* NextAvailableIntervalStrategy::next_timestamp (StepDivisor(duration) # 0)
FullDurationsTillPresent(clock, current, duration) ==
    DivCeil(AsU32(Max(Timestamp(clock) - Timestamp(current), 0)), StepDivisor(duration))

NextAvailableNextTimestamp(clock, current, duration) ==
    current + Seconds(FullDurationsTillPresent(clock, current, duration) * NumSeconds(duration))

\* --------------------------------------------------------------- iterators
\* C5 mutant: the cursor starts one duration after start
NewIterator_Shifted(p) ==
    [live |-> TRUE, current |-> p.start + p.duration, out |-> <<>>]

\* PeriodIterator::new
NewIterator(p) ==
    [live |-> TRUE, current |-> p.start, out |-> <<>>]

\* PeriodIterator::next: the cursor after the call, given the computed
\* successor; the value returned is appended to out
Advance(it, next) ==
    [it EXCEPT !.current = next, !.out = Append(it.out, it.current)]

\* --------------------------------------------------------------- scheduler
\* the entries the caller registers, one after the other
Entries == {1, 2}

\* Box<dyn TemporalIterator>: a Period or a cron Schedule; a Schedule is
\* its finite list of upcoming matches, whole seconds in ascending order
NoSource == [kind |-> "none", period |-> NoPeriod, times |-> <<>>]
PeriodSource(p) == [kind |-> "period", period |-> p, times |-> <<>>]
CronSource(times) == [kind |-> "cron", period |-> NoPeriod, times |-> times]

SchedStarts == {MinStart + 1, 0, TicksPerSec + 1}
SchedDurations == {1, TicksPerSec, TicksPerSec + 1}
SchedTimes == {<<>>, <<Seconds(1)>>, <<Seconds(1), Seconds(3)>>}
SchedSources ==
    {PeriodSource(StartingAt(s, d).period) : s \in SchedStarts, d \in SchedDurations}
        \cup {CronSource(t) : t \in SchedTimes}

\* TemporalIterator::iter_times: the catch-up sequence of a Period, the
\* upcoming matches of a Schedule
IterTimes(src) ==
    [current |-> NewIterator(src.period).current, rest |-> src.times]

\* Iterator::next on the boxed sequence would panic (div_ceil by zero)
SourceNextPanics(src, cursor) ==
    src.kind = "period" /\ StepDivisor(src.period.duration) = 0

\* Iterator::next on the boxed sequence: the item and the cursor afterwards
SourceNext(src, cursor, clock) ==
    IF src.kind = "period"
    THEN [some |-> TRUE, value |-> cursor.current,
          cursor |-> [cursor EXCEPT !.current =
                         NextAvailableNextTimestamp(clock, cursor.current, src.period.duration)]]
    ELSE IF cursor.rest = <<>>
    THEN [some |-> FALSE, value |-> 0, cursor |-> cursor]
    ELSE [some |-> TRUE, value |-> Head(cursor.rest),
          cursor |-> [cursor EXCEPT !.rest = Tail(cursor.rest)]]

\* to_instant: the time from clock until the instant that is slept until
ToInstantWait(due, clock) ==
    LET offset_from_epoch == IF Timestamp(due) >= 0 THEN Timestamp(due) ELSE 0
        target == Seconds(offset_from_epoch)
    IN IF target >= clock THEN target - clock ELSE 0

\* C13 mutant: the loop asks again after the sequence has ended
PcAfterNext_KeepPolling(some) == IF some THEN "wait" ELSE "pull"

\* C23 mutant: the loop goes round without sleeping and executing
PcAfterNext_Skip(some) == IF some THEN "pull" ELSE "exhausted"

\* where the loop of execute_scheduled_task goes after asking for an item
PcAfterNext(some) == IF some THEN "wait" ELSE "exhausted"

\* where the registering thread stands while the path of an entry is at pc
CallerDuring(pc) ==
    IF pc \in {"task_panicked", "next_panicked"} THEN "panicked"
    ELSE IF pc = "exhausted" THEN "idle"
    ELSE "blocked"

UnregisteredPath ==
    [pc |-> "unregistered", cursor |-> [current |-> 0, rest |-> <<>>],
     pulled |-> <<>>, executed |-> <<>>, polls |-> 0,
     pullAt |-> 0, wait |-> 0, execAt |-> 0]

\* ----------------------------------------------------------------- actions
Init ==
    /\ now = 0
    /\ args = NoPeriod
    /\ result = "none"
    /\ period = NoPeriod
    /\ fixedIt = NoIter
    /\ relIt = NoIter
    /\ relMade = 0
    /\ relFirstAt = 0
    /\ panicked = FALSE
    /\ runs = [r \in Runs |-> NoRun]
    /\ callerPc = "idle"
    /\ sources = [i \in Entries |-> NoSource]
    /\ paths = [i \in Entries |-> UnregisteredPath]

\* the clock moves on
Tick ==
    /\ ~panicked
    /\ now < MaxNow
    /\ now' = now + 1
    /\ UNCHANGED <<args, result, period, fixedIt, relIt, relMade, relFirstAt, panicked>>
    /\ UNCHANGED <<schedVars, runs>>

\* Period::starting_at
Construct ==
    /\ ~panicked
    /\ result = "none"
    /\ \E start \in Starts, duration \in Durations :
          /\ args' = [start |-> start, duration |-> duration]
          /\ result' = StartingAt(start, duration).result
          /\ period' = StartingAt(start, duration).period
    /\ UNCHANGED <<now, fixedIt, relIt, relMade, relFirstAt, panicked>>
    /\ UNCHANGED <<schedVars, runs>>

\* Period::upcoming_fixed
UpcomingFixed ==
    /\ ~panicked
    /\ result = "Ok"
    /\ fixedIt' = NewIterator(period)
    /\ UNCHANGED <<now, args, result, period, relIt, relMade, relFirstAt, panicked>>
    /\ UNCHANGED <<schedVars, runs>>

\* Period::upcoming_relative
UpcomingRelative ==
    /\ ~panicked
    /\ result = "Ok"
    /\ relIt' = NewIterator(period)
    /\ relMade' = now
    /\ relFirstAt' = 0
    /\ UNCHANGED <<now, args, result, period, fixedIt, panicked>>
    /\ UNCHANGED <<schedVars, runs>>

\* C15 mutant: the two sequences of a Period share one cursor
NextFixed_SharedCursor ==
    /\ ~panicked
    /\ fixedIt.live
    /\ Len(fixedIt.out) < MaxCalls
    /\ fixedIt' = Advance(fixedIt, FixedNextTimestamp(fixedIt.current, period.duration))
    /\ relIt' = IF relIt.live THEN [relIt EXCEPT !.current = fixedIt'.current] ELSE relIt
    /\ UNCHANGED <<now, args, result, period, relMade, relFirstAt, panicked>>
    /\ UNCHANGED <<schedVars, runs>>

\* PeriodIterator<FixedIntervalStrategy>::next
NextFixed ==
    /\ ~panicked
    /\ fixedIt.live
    /\ Len(fixedIt.out) < MaxCalls
    /\ fixedIt' = Advance(fixedIt, FixedNextTimestamp(fixedIt.current, period.duration))
    /\ UNCHANGED <<now, args, result, period, relIt, relMade, relFirstAt, panicked>>
    /\ UNCHANGED <<schedVars, runs>>

\* PeriodIterator<NextAvailableIntervalStrategy>::next
NextRelative ==
    /\ ~panicked
    /\ relIt.live
    /\ Len(relIt.out) < MaxCalls
    /\ StepDivisor(period.duration) # 0
    /\ relIt' = Advance(relIt, NextAvailableNextTimestamp(now, relIt.current, period.duration))
    /\ relFirstAt' = IF relIt.out = <<>> THEN now ELSE relFirstAt
    /\ UNCHANGED <<now, args, result, period, fixedIt, relMade, panicked>>
    /\ UNCHANGED <<schedVars, runs>>

\* PeriodIterator<NextAvailableIntervalStrategy>::next, div_ceil by zero:
\* the call panics before it returns a value
NextRelativePanic ==
    /\ ~panicked
    /\ relIt.live
    /\ Len(relIt.out) < MaxCalls
    /\ StepDivisor(period.duration) = 0
    /\ panicked' = TRUE
    /\ UNCHANGED <<now, args, result, period, fixedIt, relIt, relMade, relFirstAt>>
    /\ UNCHANGED <<schedVars, runs>>

Next ==
    \/ Tick
    \/ Construct
    \/ UpcomingFixed
    \/ UpcomingRelative
    \/ NextFixed
    \/ NextRelative
    \/ NextRelativePanic

Spec == Init /\ [][Next]_vars

\* ------------------------------------------------------- scheduler actions
SchedInit ==
    /\ now = 0
    /\ args = NoPeriod
    /\ result = "none"
    /\ period = NoPeriod
    /\ fixedIt = NoIter
    /\ relIt = NoIter
    /\ relMade = 0
    /\ relFirstAt = 0
    /\ panicked = FALSE
    /\ runs = [r \in Runs |-> NoRun]
    /\ callerPc = "idle"
    /\ sources \in [Entries -> SchedSources]
    /\ paths = [i \in Entries |-> UnregisteredPath]

\* the clock moves on while the process lives
SchedTick ==
    /\ callerPc # "panicked"
    /\ Tick

\* Zeitschaltuhr::add_task up to block_on: the sequence is obtained, the
\* ScheduledTask built and its loop entered on the calling thread
AddTask(i) ==
    /\ callerPc = "idle"
    /\ paths[i].pc = "unregistered"
    /\ \A j \in Entries : j < i => paths[j].pc # "unregistered"
    /\ paths' = [paths EXCEPT ![i] = [@ EXCEPT !.pc = "pull", !.cursor = IterTimes(sources[i])]]
    /\ callerPc' = CallerDuring("pull")
    /\ UNCHANGED <<now, sources>>
    /\ UNCHANGED <<periodVars, runs>>

\* execute_scheduled_task: the loop asks the sequence for its next item,
\* computes the wait with to_instant and goes to sleep; when the sequence
\* has ended the loop ends and block_on and add_task return
Pull(i) ==
    /\ paths[i].pc = "pull"
    /\ paths[i].polls < MaxCalls
    /\ ~SourceNextPanics(sources[i], paths[i].cursor)
    /\ LET item == SourceNext(sources[i], paths[i].cursor, now)
           pc == PcAfterNext(item.some)
       IN /\ paths' = [paths EXCEPT ![i] =
                 [@ EXCEPT !.pc = pc,
                           !.cursor = item.cursor,
                           !.polls = @ + 1,
                           !.pulled = IF item.some THEN Append(@, item.value) ELSE @,
                           !.pullAt = IF item.some THEN now ELSE @,
                           !.wait = IF item.some THEN ToInstantWait(item.value, now) ELSE @]]
          /\ callerPc' = CallerDuring(pc)
    /\ UNCHANGED <<now, sources>>
    /\ UNCHANGED <<periodVars, runs>>

\* execute_scheduled_task: the call of next panics; the panic unwinds
\* through block_on into the caller of add_task
PullPanic(i) ==
    /\ paths[i].pc = "pull"
    /\ paths[i].polls < MaxCalls
    /\ SourceNextPanics(sources[i], paths[i].cursor)
    /\ paths' = [paths EXCEPT ![i] = [@ EXCEPT !.pc = "next_panicked", !.polls = @ + 1]]
    /\ callerPc' = CallerDuring("next_panicked")
    /\ UNCHANGED <<now, sources>>
    /\ UNCHANGED <<periodVars, runs>>

\* C21 mutant: the sleep ends only while the clock reads the target exactly
Wake_ExactInstant(i) ==
    /\ paths[i].pc = "wait"
    /\ now = paths[i].pullAt + paths[i].wait
    /\ paths' = [paths EXCEPT ![i] =
           [@ EXCEPT !.pc = "exec",
                     !.executed = Append(@, paths[i].pulled[Len(paths[i].pulled)]),
                     !.execAt = now]]
    /\ UNCHANGED <<now, sources, callerPc>>
    /\ UNCHANGED <<periodVars, runs>>

\* sleep_until completes and task.execute() is called
Wake(i) ==
    /\ paths[i].pc = "wait"
    /\ now >= paths[i].pullAt + paths[i].wait
    /\ paths' = [paths EXCEPT ![i] =
           [@ EXCEPT !.pc = "exec",
                     !.executed = Append(@, paths[i].pulled[Len(paths[i].pulled)]),
                     !.execAt = now]]
    /\ UNCHANGED <<now, sources, callerPc>>
    /\ UNCHANGED <<periodVars, runs>>

\* task.execute() returns and the loop goes round
Finish(i) ==
    /\ paths[i].pc = "exec"
    /\ paths' = [paths EXCEPT ![i] = [@ EXCEPT !.pc = "pull"]]
    /\ UNCHANGED <<now, sources, callerPc>>
    /\ UNCHANGED <<periodVars, runs>>

\* task.execute() panics; the panic unwinds through block_on into the
\* caller of add_task
TaskPanic(i) ==
    /\ paths[i].pc = "exec"
    /\ paths' = [paths EXCEPT ![i] = [@ EXCEPT !.pc = "task_panicked"]]
    /\ callerPc' = CallerDuring("task_panicked")
    /\ UNCHANGED <<now, sources>>
    /\ UNCHANGED <<periodVars, runs>>

SchedNext ==
    \/ SchedTick
    \/ \E i \in Entries : AddTask(i)
    \/ \E i \in Entries : Pull(i)
    \/ \E i \in Entries : PullPanic(i)
    \/ \E i \in Entries : Wake(i)
    \/ \E i \in Entries : Finish(i)
    \/ \E i \in Entries : TaskPanic(i)

SchedSpec == SchedInit /\ [][SchedNext]_vars

\* the source configurations of the fair runs: a Period registered first,
\* or a Period registered after a Schedule with one match (the second
\* source matters only when the first one ends, because add_task returns
\* only then)
SchedFairInit ==
    /\ SchedInit
    /\ \/ sources[1].kind = "period" /\ sources[2] = CronSource(<<>>)
       \/ sources[1] = CronSource(<<Seconds(1)>>) /\ sources[2].kind = "period"

\* the runtime keeps driving the loop and the clock runs; a task may block
\* for ever, so its return is not forced
SchedFairSpec ==
    /\ SchedFairInit
    /\ [][SchedNext]_vars
    /\ WF_vars(SchedTick)
    /\ \A i \in Entries :
          /\ WF_vars(AddTask(i))
          /\ WF_vars(Pull(i))
          /\ WF_vars(PullPanic(i))
          /\ WF_vars(Wake(i))


\* ------------------------------------------- two fixed-mode runs of a Period
\* Period::upcoming_fixed, for run r
RunUpcomingFixed(r) ==
    /\ ~panicked
    /\ result = "Ok"
    /\ ~runs[r].it.live
    /\ runs' = [runs EXCEPT ![r] = [it |-> NewIterator(period), firstAt |-> 0, lastAt |-> 0]]
    /\ UNCHANGED <<now, periodVars, schedVars>>

\* PeriodIterator<FixedIntervalStrategy>::next, for run r
RunNextFixed(r) ==
    /\ ~panicked
    /\ runs[r].it.live
    /\ Len(runs[r].it.out) < MaxCalls
    /\ runs' = [runs EXCEPT ![r] =
                  [it |-> Advance(runs[r].it,
                                  FixedNextTimestamp(runs[r].it.current, period.duration)),
                   firstAt |-> IF runs[r].it.out = <<>> THEN now ELSE runs[r].firstAt,
                   lastAt |-> now]]
    /\ UNCHANGED <<now, periodVars, schedVars>>

PairNext ==
    \/ Tick
    \/ Construct
    \/ \E r \in Runs : RunUpcomingFixed(r)
    \/ \E r \in Runs : RunNextFixed(r)

PairSpec == Init /\ [][PairNext]_vars

\* ------------------------------------------------------------------ claims
SeqIndex(out) == 1..Len(out)

\* C1: for a Period with start s and duration d > 0 the n-th value of the
\* fixed-mode sequence (n counted from 0) is s + n*d, the first one being s,
\* whatever the clock reads
C1_FixedNthValue ==
    \A i \in SeqIndex(fixedIt.out) :
        fixedIt.out[i] = period.start + (i - 1) * period.duration

\* three values were yielded, the third already in the past of the clock,
\* for a duration with a fractional second
C1_Witness ==
    /\ Len(fixedIt.out) >= 3
    /\ fixedIt.out[3] < now
    /\ period.duration % TicksPerSec # 0

SmallestAligned(start, duration, clock) ==
    LET k == CHOOSE n \in 0..(Max(clock - start, 0) + 1) :
                 /\ start + n * duration > clock
                 /\ \A j \in 0..(n - 1) : start + j * duration <= clock
    IN start + k * duration

\* C3: when start lies strictly before the clock reading, the first value of
\* the catch-up sequence is the smallest start + k*duration strictly later
\* than the clock reading (taken when the sequence was obtained or when its
\* first value was asked for)
C3_FirstValueAligned ==
    (relIt.out # <<>> /\ period.start < relMade) =>
        \/ relIt.out[1] = SmallestAligned(period.start, period.duration, relMade)
        \/ relIt.out[1] = SmallestAligned(period.start, period.duration, relFirstAt)

\* C4: when the clock reading equals start exactly, the first value of the
\* catch-up sequence is start + duration
C4_FirstValueWhenStartIsNow ==
    (relIt.out # <<>> /\ relMade = period.start /\ relFirstAt = period.start) =>
        relIt.out[1] = period.start + period.duration

\* C5: when start lies strictly after the clock reading, the first value of
\* the catch-up sequence is start itself
C5_FirstValueFutureStart ==
    (relIt.out # <<>> /\ period.start > relMade) => relIt.out[1] = period.start

\* a first value was yielded while start was still in the future
C5_Witness ==
    /\ relIt.out # <<>>
    /\ period.start > relFirstAt
    /\ relFirstAt > relMade

\* C6: in the catch-up sequence every value after the first equals the
\* previously yielded value plus the duration, however the clock moves
C6_LaterValuesPlainAddition ==
    \A i \in SeqIndex(relIt.out) :
        i + 1 \in SeqIndex(relIt.out) =>
            relIt.out[i + 1] = relIt.out[i] + period.duration

\* C7: construction with a duration of exactly zero returns
\* ZeroDurationError and no Period, for every start
C7_ZeroDurationRejected ==
    (result # "none" /\ args.duration = 0) =>
        /\ result = "ZeroDurationError"
        /\ period = NoPeriod
        /\ ~fixedIt.live
        /\ ~relIt.live

\* a zero duration was passed with a start that is not a whole second
C7_Witness ==
    /\ result = "ZeroDurationError"
    /\ args.duration = 0
    /\ args.start % TicksPerSec # 0

\* C8: construction with any duration below zero, a fraction of a second
\* included, returns NegativeDurationError
C8_NegativeDurationRejected ==
    (result # "none" /\ args.duration < 0) =>
        /\ result = "NegativeDurationError"
        /\ period = NoPeriod
        /\ ~fixedIt.live
        /\ ~relIt.live

\* a negative duration of less than one second was passed
C8_Witness ==
    /\ result = "NegativeDurationError"
    /\ args.duration < 0
    /\ NumSeconds(args.duration) = 0

C10_DurationAtLeastOneSecond ==
    /\ result = "Ok" => NumSeconds(period.duration) >= 1
    /\ ~panicked

Last(seq) == seq[Len(seq)]

PathPanicked(i) == paths[i].pc \in {"task_panicked", "next_panicked"}

\* C11: add_task creates the entry, starts its execution path and returns
\* without waiting for the entry's due instants or task executions: while a
\* path sleeps or executes, the registering thread is back with its caller
C11_AddTaskReturns ==
    \A i \in Entries : paths[i].pc \in {"wait", "exec"} => callerPc = "idle"

\* C12: with two entries registered one after the other, the path of one
\* entry that sleeps for a due instant or is inside a long or blocking task
\* does not delay or suppress the other entry: the other entry can be
\* registered when its turn has come and its task can start when it is due
C12_EntriesIndependent ==
    \A i, j \in Entries :
        (i # j /\ paths[j].pc \in {"wait", "exec"}) =>
            /\ (paths[i].pc = "unregistered" /\ \A k \in Entries : k < i => paths[k].pc # "unregistered")
                   => ENABLED AddTask(i)
            /\ (paths[i].pc = "wait" /\ now >= paths[i].pullAt + paths[i].wait)
                   => ENABLED Wake(i)

\* the finite source of entry i has returned its end
Ended(i) == sources[i].kind = "cron" /\ paths[i].polls > Len(sources[i].times)

\* C13: when the source of an entry is finite with m instants, the path
\* executes the task for exactly those m instants and ends without error;
\* after the source has returned its end the task is not executed and the
\* source is not polled again
C13_FiniteSourceEndsPath ==
    /\ [](\A i \in Entries : Ended(i) =>
             /\ paths[i].pc = "exhausted"
             /\ paths[i].executed = sources[i].times
             /\ paths[i].polls = Len(sources[i].times) + 1)
    /\ [][\A i \in Entries : Ended(i) => paths'[i] = paths[i]]_vars

\* the first entry ran through a source of two instants and ended, and the
\* second entry is being executed afterwards
C13_Witness ==
    /\ Ended(1)
    /\ Len(paths[1].executed) = 2
    /\ paths[2].pc = "exec"

\* C14: a panic inside the task of one entry ends only the path of that
\* entry; the thread that registered it is not affected
C14_TaskPanicIsolated ==
    \A i \in Entries : paths[i].pc = "task_panicked" => callerPc # "panicked"

\* C15: obtaining and advancing sequences leaves the Period unchanged, and
\* a step that changes one sequence leaves the other sequence unchanged
C15_PeriodAndOtherSequenceUnchanged ==
    [][/\ result = "Ok" => period' = period
       /\ fixedIt' # fixedIt => relIt' = relIt
       /\ relIt' # relIt => fixedIt' = fixedIt]_vars

\* both sequences of one Period were advanced, to different positions
C15_Witness ==
    /\ Len(fixedIt.out) >= 3
    /\ Len(relIt.out) = 1
    /\ fixedIt.current # relIt.current

\* the value the catch-up alignment gives for a clock reading
AlignedFirst(start, duration, clock) ==
    IF start > clock THEN start ELSE SmallestAligned(start, duration, clock)

\* C16: every new sequence starts from the beginning under its mode: a new
\* fixed-mode sequence yields start first, a new catch-up sequence the
\* value aligned against the clock reading at the time it was obtained
C16_NewSequenceRestarts ==
    /\ fixedIt.out # <<>> => fixedIt.out[1] = period.start
    /\ relIt.out # <<>> =>
           relIt.out[1] = AlignedFirst(period.start, period.duration, relMade)

\* C17: every call of next on a sequence of a Period returns a value
C17_NextAlwaysYields ==
    [][(NextFixed \/ NextRelative \/ NextRelativePanic) =>
           \/ Len(fixedIt'.out) = Len(fixedIt.out) + 1
           \/ Len(relIt'.out) = Len(relIt.out) + 1]_vars

\* an instant or a duration rounded to the nearest whole second, half a
\* second away from zero
RoundToSecond(x) ==
    IF x >= 0
    THEN Seconds((2 * x + TicksPerSec) \div (2 * TicksPerSec))
    ELSE -Seconds((2 * (-x) + TicksPerSec) \div (2 * TicksPerSec))

\* C18: construction stores the start and the duration rounded to the
\* nearest whole second
C18_ConstructionRounds ==
    result = "Ok" =>
        /\ period.start = RoundToSecond(args.start)
        /\ period.duration = RoundToSecond(args.duration)

\* C19: the wait computed for a due instant is max(0, due - now); a due
\* instant in the past gets a zero wait
C19_WaitIsDueMinusNow ==
    \A i \in Entries :
        paths[i].pulled # <<>> =>
            paths[i].wait = Max(Last(paths[i].pulled) - paths[i].pullAt, 0)

\* C20: the task is never executed while the clock still reads earlier than
\* the due instant it is executed for
C20_ExecutedNotBeforeDue ==
    \A i \in Entries :
        paths[i].executed # <<>> => paths[i].execAt >= Last(paths[i].executed)

\* C21: for an entry with a Period source, while the clock keeps advancing
\* every due instant the path has pulled is followed by an execution of the
\* task, and a registered entry gets at least one execution
C21_PulledEventuallyExecuted ==
    \A i \in Entries :
        /\ (/\ sources[i].kind = "period"
            /\ paths[i].pc = "wait"
            /\ paths[i].pullAt + paths[i].wait <= MaxNow)
               ~> (paths[i].pc = "exec" /\ Len(paths[i].executed) = Len(paths[i].pulled))
        /\ (/\ sources[i].kind = "period"
            /\ paths[i].pc = "pull"
            /\ paths[i].polls = 0
            /\ ~SourceNextPanics(sources[i], paths[i].cursor))
               ~> (paths[i].executed # <<>>)

\* the task of a Period entry is executed after a real wait, the clock
\* having moved on to the instant slept for
C21_Witness ==
    \E i \in Entries :
        /\ sources[i].kind = "period"
        /\ paths[i].pc = "exec"
        /\ paths[i].wait > 0
        /\ paths[i].execAt >= paths[i].pullAt + paths[i].wait

\* C22: within one execution path the instants pulled from the source are
\* non-decreasing, however the clock moves between the pulls
C22_PulledNonDecreasing ==
    \A i \in Entries :
        \A k \in SeqIndex(paths[i].pulled) :
            k + 1 \in SeqIndex(paths[i].pulled) =>
                paths[i].pulled[k] <= paths[i].pulled[k + 1]

\* a Period entry has pulled three instants, the cursor standing still once
\* and moving on once
C22_Witness ==
    \E i \in Entries :
        /\ sources[i].kind = "period"
        /\ Len(paths[i].pulled) >= 3
        /\ paths[i].pulled[1] = paths[i].pulled[2]
        /\ paths[i].pulled[2] < paths[i].pulled[3]

\* C23: in one execution path the number of task executions is equal to or
\* one less than the number of instants pulled, and the k-th execution is
\* for the k-th pulled instant
C23_PullWaitExecuteCycle ==
    \A i \in Entries :
        /\ Len(paths[i].executed) \in {Len(paths[i].pulled), Len(paths[i].pulled) - 1}
        /\ \A k \in SeqIndex(paths[i].executed) : paths[i].executed[k] = paths[i].pulled[k]

\* a path sleeps for its third instant after two executions
C23_Witness ==
    \E i \in Entries :
        /\ paths[i].pc = "wait"
        /\ Len(paths[i].executed) = 2
        /\ Len(paths[i].pulled) = 3

\* C24: for an entry whose source is a Period the due instants its path
\* pulls are strictly increasing
C24_PeriodPulledStrictlyIncreasing ==
    \A i \in Entries :
        sources[i].kind = "period" =>
            \A k \in SeqIndex(paths[i].pulled) :
                k + 1 \in SeqIndex(paths[i].pulled) =>
                    paths[i].pulled[k] < paths[i].pulled[k + 1]

\* ceil(max(0, now - current) / duration) in whole seconds, without casts
ExactSteps(clock, current, duration) ==
    DivCeil(Max(Timestamp(clock) - Timestamp(current), 0), NumSeconds(duration))

\* C25: the catch-up step count computed through the u32 casts equals
\* ceil(max(0, now - current) / duration) in whole seconds for every clock
\* reading, cursor and duration of at least one whole second, and the
\* division never has a zero divisor
C25_StepCountExact ==
    [][NumSeconds(period.duration) >= 1 =>
           /\ NextRelative =>
                  relIt'.current = relIt.current
                      + Seconds(ExactSteps(now, relIt.current, period.duration)
                                * NumSeconds(period.duration))
           /\ ~NextRelativePanic]_vars


\* C26: two fixed-mode sequences of the same Period yield the same values in
\* the same order, whatever the clock reads when each value is taken
C26_FixedRunsAgree ==
    \A k \in SeqIndex(runs[1].it.out) \cap SeqIndex(runs[2].it.out) :
        runs[1].it.out[k] = runs[2].it.out[k]

\* both runs took three values, the cursor lying in the past of the clock, and
\* every call of the second run read a later clock than any call of the first
C26_Witness ==
    /\ Len(runs[1].it.out) >= 3
    /\ Len(runs[2].it.out) >= 3
    /\ runs[1].lastAt < runs[2].firstAt
    /\ runs[2].firstAt < runs[2].lastAt
    /\ period.start < runs[1].firstAt
====
